---- MODULE Spec2Model ----
(***************************************************************************)
(* Model of frag-utils common.py: submit_assignment / request_evaluation   *)
(* against the relational store, and the poller loop.                      *)
(***************************************************************************)
EXTENDS Integers, Sequences, FiniteSets, TLC

(***************************************************************************)
(* Bounds of the model.                                                    *)
(***************************************************************************)
\* concurrent callers share MaxCalls calls; the sequential caller makes MaxSeqCalls
MaxCalls == 2
MaxSeqCalls == 11
\* largest microsecond component of an input timestamp (sequential caller)
MaxMicro == 2
\* longest file list of one call
MaxFiles == 2

\* cycles of poller, longest poll callback (in time units), time units per second
MaxCycles == 2
MaxDur == 5
TicksPerSecond == 2
\* calls of commit() on one connection
MaxCommits == 2

\* range(10) of the retry loop
Retries == 10

Procs == {1, 2}
SeqProcs == {1}

Persons == {1, 2}
Assignments == {1}

(***************************************************************************)
(* datetime values.  An aware/local datetime is [sec, us, off]: wall-clock *)
(* seconds, microsecond component, and the UTC offset of its zone (in      *)
(* seconds).  A naive datetime is [sec, us].                               *)
(***************************************************************************)
NoTimestamp == [sec |-> 0, us |-> 0 - 1, off |-> 0]
NullStamp == [sec |-> 0, us |-> 0 - 1]

to_utc(local) == [sec |-> local.sec - local.off, us |-> local.us, off |-> 0]

to_utc_strip(local) == [sec |-> to_utc(local).sec, us |-> to_utc(local).us]

\* datetime.replace(microsecond=m): the other components are kept
replace_microsecond(stamp, m) == [stamp EXCEPT !.us = m]

\* position of a naive datetime on the time line, in microseconds
Micros(stamp) == stamp.sec * 1000000 + stamp.us

(***************************************************************************)
(* sha256: str data is encoded to bytes first, then digested.  Data is     *)
(* [kind, val] with val a sequence of byte values; the digest is a fold    *)
(* over the bytes (injective on the byte strings of the model).            *)
(***************************************************************************)
RECURSIVE Digest(_, _)
Digest(h, bs) == IF bs = <<>> THEN h
                 ELSE Digest((h * 31 + Head(bs) + 1) % 65536, Tail(bs))

encode_utf8(data) == [kind |-> "bytes", val |-> data.val]

sha256(data) ==
    LET bytes == IF data.kind = "str" THEN encode_utf8(data) ELSE data
    IN  Digest(7, bytes.val)

(***************************************************************************)
(* EvalReq                                                                 *)
(***************************************************************************)
EvalReq == {"Yes", "No", "TeacherInactiveOnly"}

(***************************************************************************)
(* State.  Tables are sequences of rows in insertion order.                *)
(***************************************************************************)
VARIABLES
    submission,      \* rows [id, author, assignment_id, stamp]
    next_id,         \* the serial of submission.id
    content,         \* rows [sha, data]
    submission_in,   \* rows [submission_id, assignment_id, name, content_sha]
    eval_req,        \* rows [submission_id, suite_id]
    notified,        \* number of "notify eval_req" statements executed
    teacher_list,    \* uids of teachers
    current_suite,   \* rows [id, assignment_id, active]
    proc,            \* per caller: position and locals of submit_assignment
    ncalls,          \* number of calls started
    last,            \* the call that finished last (its final locals)
    \* poller
    ppc,             \* position of poller: load, polling, loop, sleeping, ...
    oneshot,         \* args.oneshot
    stop_signal,     \* the flag the SIGTERM handler sets
    config,          \* the raw interval of the configuration loaded last
    interval,        \* config.interval() of this cycle, in seconds
    clock,           \* time since start = time.perf_counter() of this cycle
    left,            \* iterations left of "for _ in range(sleep_for)"
    nap,             \* time spent in the current time.sleep(1)
    polls,           \* invocations of the poll callback
    watch,           \* observations: sleeps completed, time and place of SIGTERM
    \* the connection
    dry_run,         \* args.dry_run
    db,              \* the DBConnection: dry_run, commits forwarded and skipped
    durable,         \* per table, the number of rows committed
    want             \* per submission id, the number of files of its call

dbvars == <<submission, next_id, content, submission_in, eval_req, notified,
            teacher_list, current_suite>>
pvars == <<ppc, oneshot, stop_signal, config, interval, clock, left, nap,
           polls, watch, dry_run, db, durable, want>>
vars == <<submission, next_id, content, submission_in, eval_req, notified,
          teacher_list, current_suite, proc, ncalls, last,
          ppc, oneshot, stop_signal, config, interval, clock, left, nap,
          polls, watch, dry_run, db, durable, want>>

Range(s) == {s[i] : i \in DOMAIN s}

NoWrites == [submission |-> 0, content |-> 0, submission_in |-> 0,
             eval_req |-> 0, notify |-> 0]

\* a caller outside submit_assignment
Idle == [pc |-> "idle", asgn_id |-> 0, author |-> 0, files |-> <<>>,
         timestamp |-> NoTimestamp, mode |-> "No",
         utc_stamp |-> NullStamp, retry |-> 0, sid |-> 0, f |-> 0,
         warned |-> 0, tried |-> <<>>, req_suite |-> 0, wrote |-> NoWrites]

(***************************************************************************)
(* The statements submit_assignment sends to the store.                    *)
(***************************************************************************)
\* the unique key (author, assignment_id, stamp) of submission; rows that got
\* the column default for stamp take no part in it
NeverConflicts(table, author, asgn_id, stamp) == FALSE

Conflicts(table, author, asgn_id, stamp) ==
    \E row \in Range(table) :
        /\ row.author = author
        /\ row.assignment_id = asgn_id
        /\ row.stamp = stamp

\* insert into submission (author, assignment_id, stamp) ... on conflict do
\* nothing returning (id): the new table and the fetched id (0: no row)
InsertSubmission(table, serial, author, asgn_id, stamp) ==
    IF Conflicts(table, author, asgn_id, stamp)
    THEN [table |-> table, id |-> 0]
    ELSE [table |-> Append(table, [id |-> serial, author |-> author,
                                   assignment_id |-> asgn_id, stamp |-> stamp]),
          id |-> serial]

\* insert into content (sha, data) ... on conflict do nothing
InsertContentAlways(table, sha, data) ==
    Append(table, [sha |-> sha, data |-> data])

InsertContent(table, sha, data) ==
    IF \E row \in Range(table) : row.sha = sha
    THEN table
    ELSE Append(table, [sha |-> sha, data |-> data])

\* select id from current_suite where assignment_id = %s and not active
PendingSuites(asgn_id) ==
    {row.id : row \in {r \in current_suite :
                          r.assignment_id = asgn_id /\ ~r.active}}

(***************************************************************************)
(* submit_assignment, one action per statement sent to the store.          *)
(***************************************************************************)
Set(p, rec) == proc' = [proc EXCEPT ![p] = rec]

Wrote(r, what) == [r.wrote EXCEPT ![what] = @ + 1]

\* a loop that left the last file out
FilesOrDispatchShort(r, i) ==
    IF i < Len(r.files) THEN [r EXCEPT !.pc = "content", !.f = i]
    ELSE [r EXCEPT !.pc = "dispatch", !.f = i]

\* for f in files: the position after the insert loop / after a file
FilesOrDispatch(r, i) ==
    IF i <= Len(r.files) THEN [r EXCEPT !.pc = "content", !.f = i]
    ELSE [r EXCEPT !.pc = "dispatch", !.f = i]

\* assert sid
AssertSidStripped(sid) == TRUE

AssertSid(sid) == sid # 0

AfterInsert(r) ==
    IF AssertSid(r.sid) THEN FilesOrDispatch(r, 1)
    ELSE [r EXCEPT !.pc = "raised"]

\* entry: the arguments are bound; a given timestamp is normalised
Call(p, Inputs, Limit) ==
    /\ proc[p].pc = "idle"
    /\ ncalls < Limit
    /\ \E args \in Inputs :
        Set(p, [Idle EXCEPT
                  !.pc = IF args.timestamp # NoTimestamp THEN "insert"
                         ELSE "insert_default",
                  !.asgn_id = args.asgn_id, !.author = args.author,
                  !.files = args.files, !.timestamp = args.timestamp,
                  !.mode = args.mode,
                  !.utc_stamp = IF args.timestamp # NoTimestamp
                                THEN to_utc_strip(args.timestamp)
                                ELSE NullStamp])
    /\ ncalls' = ncalls + 1
    /\ UNCHANGED <<dbvars, last>>
    /\ UNCHANGED pvars

\* one iteration of "for retry in range(10)"
InsertStamped(p) ==
    LET r == proc[p]
        ins == InsertSubmission(submission, next_id, r.author, r.asgn_id,
                                r.utc_stamp)
        perturbed == replace_microsecond(r.utc_stamp, r.retry + 1)
        tried == Append(r.tried, r.utc_stamp)
    IN  /\ r.pc = "insert"
        /\ submission' = ins.table
        /\ next_id' = IF ins.id # 0 THEN next_id + 1 ELSE next_id
        /\ IF ins.id # 0
           THEN Set(p, AfterInsert([r EXCEPT !.utc_stamp = perturbed,
                                             !.tried = tried,
                                             !.sid = ins.id,
                                             !.wrote = Wrote(r, "submission")]))
           ELSE IF r.retry + 1 < Retries
           THEN Set(p, [r EXCEPT !.utc_stamp = perturbed, !.tried = tried,
                                 !.warned = @ + 1, !.retry = @ + 1])
           ELSE Set(p, AfterInsert([r EXCEPT !.utc_stamp = perturbed,
                                             !.tried = tried,
                                             !.warned = @ + 1,
                                             !.retry = @ + 1]))
        /\ UNCHANGED <<content, submission_in, eval_req, notified,
                       teacher_list, current_suite, ncalls, last>>
        /\ UNCHANGED pvars

\* an unstamped insert that took part in the unique key and fetched no row
\* on a conflict
InsertDefaultKeyed(p) ==
    LET r == proc[p]
        ins == InsertSubmission(submission, next_id, r.author, r.asgn_id,
                                NullStamp)
    IN  /\ r.pc = "insert_default"
        /\ submission' = ins.table
        /\ next_id' = IF ins.id # 0 THEN next_id + 1 ELSE next_id
        /\ Set(p, AfterInsert([r EXCEPT !.sid = ins.id,
                                        !.wrote = IF ins.id # 0
                                                  THEN Wrote(r, "submission")
                                                  ELSE r.wrote]))
        /\ UNCHANGED <<content, submission_in, eval_req, notified,
                       teacher_list, current_suite, ncalls, last>>
        /\ UNCHANGED pvars

\* no timestamp: insert into submission (author, assignment_id) returning (id)
InsertDefault(p) ==
    LET r == proc[p]
    IN  /\ r.pc = "insert_default"
        /\ submission' = Append(submission,
                                [id |-> next_id, author |-> r.author,
                                 assignment_id |-> r.asgn_id,
                                 stamp |-> NullStamp])
        /\ next_id' = next_id + 1
        /\ Set(p, AfterInsert([r EXCEPT !.sid = next_id,
                                        !.wrote = Wrote(r, "submission")]))
        /\ UNCHANGED <<content, submission_in, eval_req, notified,
                       teacher_list, current_suite, ncalls, last>>
        /\ UNCHANGED pvars

\* file_sha = sha256(f.data); insert into content ... on conflict do nothing
PutContent(p) ==
    LET r == proc[p]
        file == r.files[r.f]
        table == InsertContent(content, sha256(file.data), file.data)
    IN  /\ r.pc = "content"
        /\ content' = table
        /\ Set(p, [r EXCEPT !.pc = "assoc",
                            !.wrote = IF table # content
                                      THEN Wrote(r, "content") ELSE r.wrote])
        /\ UNCHANGED <<submission, next_id, submission_in, eval_req, notified,
                       teacher_list, current_suite, ncalls, last>>
        /\ UNCHANGED pvars

\* insert into submission_in (submission_id, assignment_id, name, content_sha)
AssocFile(p) ==
    LET r == proc[p]
        file == r.files[r.f]
    IN  /\ r.pc = "assoc"
        /\ submission_in' = Append(submission_in,
                                   [submission_id |-> r.sid,
                                    assignment_id |-> r.asgn_id,
                                    name |-> file.name,
                                    content_sha |-> sha256(file.data)])
        /\ Set(p, FilesOrDispatch([r EXCEPT !.wrote = Wrote(r, "submission_in")],
                                  r.f + 1))
        /\ UNCHANGED <<submission, next_id, content, eval_req, notified,
                       teacher_list, current_suite, ncalls, last>>
        /\ UNCHANGED pvars

\* the mode after "if eval_req is EvalReq.TeacherInactiveOnly: ..."
EscalateAlways(mode, author) ==
    IF mode = "TeacherInactiveOnly" THEN "Yes" ELSE mode

Escalate(mode, author) ==
    IF mode = "TeacherInactiveOnly" /\ author \in teacher_list THEN "Yes"
    ELSE mode

\* request_evaluation without its final "notify eval_req"
request_evaluation_silent(p, r) ==
    IF PendingSuites(r.asgn_id) = {}
    THEN /\ Set(p, [r EXCEPT !.pc = "done"])
         /\ UNCHANGED <<eval_req, notified>>
    ELSE \E suite_id \in PendingSuites(r.asgn_id) :
         /\ eval_req' = Append(eval_req, [submission_id |-> r.sid,
                                          suite_id |-> suite_id])
         /\ notified' = notified
         /\ Set(p, [r EXCEPT !.pc = "done", !.req_suite = suite_id,
                             !.wrote = [r.wrote EXCEPT !.eval_req = @ + 1]])

\* request_evaluation: nothing without a pending suite, else one eval_req row
\* and one notify
request_evaluation(p, r) ==
    IF PendingSuites(r.asgn_id) = {}
    THEN /\ Set(p, [r EXCEPT !.pc = "done"])
         /\ UNCHANGED <<eval_req, notified>>
    ELSE \E suite_id \in PendingSuites(r.asgn_id) :
         /\ eval_req' = Append(eval_req, [submission_id |-> r.sid,
                                          suite_id |-> suite_id])
         /\ notified' = notified + 1
         /\ Set(p, [r EXCEPT !.pc = "done", !.req_suite = suite_id,
                             !.wrote = [r.wrote EXCEPT !.eval_req = @ + 1,
                                                       !.notify = @ + 1]])

\* the tail of submit_assignment: escalation and the dispatch
Dispatch(p) ==
    LET r == proc[p]
    IN  /\ r.pc = "dispatch"
        /\ IF Escalate(r.mode, r.author) = "Yes"
           THEN request_evaluation(p, r)
           ELSE /\ Set(p, [r EXCEPT !.pc = "done"])
                /\ UNCHANGED <<eval_req, notified>>
        /\ UNCHANGED <<submission, next_id, content, submission_in,
                       teacher_list, current_suite, ncalls, last>>
        /\ UNCHANGED pvars

\* what the caller retains of a finished call
Summary(r) == [pc |-> r.pc, asgn_id |-> r.asgn_id, author |-> r.author,
               timestamp |-> r.timestamp, sid |-> r.sid, warned |-> r.warned]

\* the call returns, or its AssertionError reaches the caller
Return(p) ==
    /\ proc[p].pc \in {"done", "raised"}
    /\ last' = Summary(proc[p])
    /\ Set(p, Idle)
    /\ UNCHANGED <<dbvars, ncalls>>
    /\ UNCHANGED pvars

(***************************************************************************)
(* The connection.  psycopg2 opens a transaction with the first statement  *)
(* and keeps it open until commit or rollback; _connect_db leaves          *)
(* autocommit off.  What other processes see of a table is its committed   *)
(* prefix.  One connection writes at a time.                               *)
(***************************************************************************)
\* DBConnection.__init__
NewConnection == [dry_run |-> FALSE, commits |-> 0, skipped |-> 0]

NoneDurable == [submission |-> 0, content |-> 0, submission_in |-> 0,
                eval_req |-> 0, notified |-> 0]

\* before main has connected
NoTx ==
    /\ dry_run = FALSE
    /\ db = NewConnection
    /\ durable = NoneDurable
    /\ want = <<>>

\* the rows written so far, committed or not
Lens == [submission |-> Len(submission), content |-> Len(content),
         submission_in |-> Len(submission_in), eval_req |-> Len(eval_req),
         notified |-> notified]

\* a connection on which every statement commits by itself
AutocommitOn == TRUE

\* psycopg2.connect(...) with nothing said about autocommit
Autocommit == FALSE

\* per table, the number of rows another process sees
Visible == IF Autocommit THEN Lens ELSE durable

\* a commit() that ignored the flag
CommitAlways(conn) == [conn EXCEPT !.commits = @ + 1]

\* DBConnection.commit: skipped under dry_run, else passed on to psycopg2
DBConnection_commit(conn) ==
    IF conn.dry_run THEN [conn EXCEPT !.skipped = @ + 1]
    ELSE [conn EXCEPT !.commits = @ + 1]

\* the owner of the connection calls db.commit() between two calls of
\* submit_assignment; a commit passed on makes every row written durable
Commit(p) ==
    /\ proc[p].pc = "idle"
    /\ db.commits + db.skipped < MaxCommits
    /\ db' = DBConnection_commit(db)
    /\ durable' = IF db'.commits > db.commits THEN Lens ELSE durable
    /\ UNCHANGED <<dbvars, proc, ncalls, last>>
    /\ UNCHANGED <<ppc, oneshot, stop_signal, config, interval, clock, left,
                   nap, polls, watch, dry_run, want>>

\* a statement of submit_assignment, or the client on the way to it, fails:
\* the exception leaves the function where it is
Fail(p) ==
    /\ proc[p].pc \in {"insert", "insert_default", "content", "assoc",
                       "dispatch"}
    /\ Set(p, [proc[p] EXCEPT !.pc = "raised"])
    /\ UNCHANGED <<dbvars, ncalls, last>>
    /\ UNCHANGED pvars

\* the caller of a call that raised gives the unit of work up: the
\* transaction is rolled back (notifications are part of it, the serial of
\* submission.id is not)
Abort(p) ==
    /\ proc[p].pc = "raised"
    /\ submission' = SubSeq(submission, 1, durable.submission)
    /\ content' = SubSeq(content, 1, durable.content)
    /\ submission_in' = SubSeq(submission_in, 1, durable.submission_in)
    /\ eval_req' = SubSeq(eval_req, 1, durable.eval_req)
    /\ notified' = durable.notified
    /\ last' = Summary(proc[p])
    /\ Set(p, Idle)
    /\ UNCHANGED <<next_id, teacher_list, current_suite, ncalls>>
    /\ UNCHANGED pvars

\* the call returns to a caller that goes on with the transaction open
TxReturn(p) ==
    /\ proc[p].pc = "done"
    /\ last' = Summary(proc[p])
    /\ want' = (proc[p].sid :> Len(proc[p].files)) @@ want
    /\ Set(p, Idle)
    /\ UNCHANGED <<dbvars, ncalls>>
    /\ UNCHANGED <<ppc, oneshot, stop_signal, config, interval, clock, left,
                   nap, polls, watch, dry_run, db, durable>>

\* main: --dry-run implies --oneshot, and the connection gets the flag
main ==
    /\ ppc = "main"
    /\ ppc' = "load"
    /\ oneshot' = (oneshot \/ dry_run)
    /\ db' = [db EXCEPT !.dry_run = dry_run]
    /\ UNCHANGED <<stop_signal, config, interval, clock, left, nap, polls,
                   watch, dry_run, durable, want>>

(***************************************************************************)
(* BaseConfig.interval: the raw value of the key "interval" is an int, a   *)
(* str (a sequence of characters) or something else; an absent key gives   *)
(* the default.                                                            *)
(***************************************************************************)
DefaultInterval == 300

DigitChars == <<"0", "1", "2", "3", "4", "5", "6", "7", "8", "9">>

IsDigit(c) == \E i \in DOMAIN DigitChars : DigitChars[i] = c

DigitValue(c) == (CHOOSE i \in DOMAIN DigitChars : DigitChars[i] = c) - 1

\* length of the longest prefix of text made of digits ([0-9]+ is greedy)
RECURSIVE LeadingDigits(_)
LeadingDigits(text) ==
    IF text # <<>> /\ IsDigit(Head(text)) THEN 1 + LeadingDigits(Tail(text))
    ELSE 0

\* length of the longest prefix of text made of spaces
RECURSIVE LeadingSpaces(_)
LeadingSpaces(text) ==
    IF text # <<>> /\ Head(text) = " " THEN 1 + LeadingSpaces(Tail(text))
    ELSE 0

\* RE_INTERVAL.fullmatch: ([0-9]+) *(s|m|h); the groups, or matched = FALSE
RE_INTERVAL_fullmatch(text) ==
    LET n == LeadingDigits(text)
        rest == SubSeq(text, n + 1, Len(text))
        k == LeadingSpaces(rest)
        unit == SubSeq(rest, k + 1, Len(rest))
    IN  [matched |-> n >= 1 /\ Len(unit) = 1 /\ unit[1] \in {"s", "m", "h"},
         number |-> SubSeq(text, 1, n),
         unit |-> unit]

\* int() of a string of decimal digits
RECURSIVE int_of(_, _)
int_of(digits, acc) ==
    IF digits = <<>> THEN acc
    ELSE int_of(Tail(digits), acc * 10 + DigitValue(Head(digits)))

Seconds(unit) == CASE unit = "s" -> 1 [] unit = "m" -> 60 [] unit = "h" -> 3600

RawInt(n) == [type |-> "int", val |-> n, text |-> <<>>]
RawStr(text) == [type |-> "str", val |-> 0, text |-> text]
RawAbsent == [type |-> "absent", val |-> 0, text |-> <<>>]
RawOther == [type |-> "other", val |-> 0, text |-> <<>>]

\* an interval() that fell back to the default on a value it cannot read
BaseConfig_interval_lenient(raw) ==
    LET raw_interval == IF raw.type = "absent" THEN RawInt(DefaultInterval)
                        ELSE raw
        m == RE_INTERVAL_fullmatch(raw_interval.text)
    IN  IF raw_interval.type = "int"
        THEN [raised |-> FALSE, val |-> raw_interval.val]
        ELSE IF raw_interval.type = "str" /\ m.matched
        THEN [raised |-> FALSE,
              val |-> int_of(m.number, 0) * Seconds(m.unit[1])]
        ELSE [raised |-> FALSE, val |-> DefaultInterval]

\* the result of config.interval(): a number of seconds, or it raises
BaseConfig_interval(raw) ==
    LET raw_interval == IF raw.type = "absent" THEN RawInt(DefaultInterval)
                        ELSE raw
        m == RE_INTERVAL_fullmatch(raw_interval.text)
    IN  IF raw_interval.type = "int"
        THEN [raised |-> FALSE, val |-> raw_interval.val]
        ELSE IF raw_interval.type = "str" /\ m.matched
        THEN [raised |-> FALSE,
              val |-> int_of(m.number, 0) * Seconds(m.unit[1])]
        ELSE [raised |-> TRUE, val |-> 0]

(***************************************************************************)
(* poller.  Time is counted in units of 1/TicksPerSecond s; the poll       *)
(* callback and time.sleep(1) take time, every other step takes none.      *)
(***************************************************************************)
NoWatch == [sleeps |-> 0, since_sig |-> 0 - 1, sig_at |-> "none",
            after_sig |-> 0, short |-> 0]

\* the configurations the reload can find
RawIntervals ==
    {RawInt(n) : n \in (0 - 1)..2}
    \cup {RawStr(<<"2", "s">>), RawStr(<<"1", " ", "s">>), RawStr(<<"0", "1", "m">>),
          RawStr(<<"3">>), RawStr(<<"s">>), RawStr(<<"1", "s", " ">>),
          RawAbsent, RawOther}

\* "if stop_signal or args.oneshot: return"
ReturnIfStopOnly(stop, once) == stop

ReturnIfOneshotOnly(stop, once) == once

\* a loop without the check
ReturnNever(stop, once) == FALSE

ShouldReturn(stop, once) == stop \/ once

\* sleep_for = int(max(0, interval - (time.perf_counter() - start)))
Max(a, b) == IF a >= b THEN a ELSE b

SleepFor(secs, elapsed) == Max(0, secs * TicksPerSecond - elapsed) \div TicksPerSecond

\* time passes for everything that is counted
Passed(w) == [w EXCEPT !.since_sig = IF @ >= 0 /\ @ <= TicksPerSecond
                                      THEN @ + 1 ELSE @]

\* a loop that took the interval once, from the configuration of the first
\* cycle, and only reloaded the rest
BeginCycleStale ==
    /\ ppc = "load"
    /\ polls < MaxCycles
    /\ \E raw \in RawIntervals :
        LET res == BaseConfig_interval(raw)
        IN  /\ config' = raw
            /\ IF res.raised
               THEN /\ ppc' = "raised"
                    /\ UNCHANGED <<interval, clock, polls, watch>>
               ELSE /\ ppc' = "polling"
                    /\ interval' = IF polls = 0 THEN res.val ELSE interval
                    /\ clock' = 0
                    /\ polls' = polls + 1
                    /\ watch' = [watch EXCEPT
                                   !.short = IF polls = 0 THEN 0
                                             ELSE Max(0, interval * TicksPerSecond - clock),
                                   !.after_sig = IF stop_signal THEN @ + 1 ELSE @]
    /\ UNCHANGED <<oneshot, stop_signal, left, nap>>

\* top of "while True": reload the configuration, take the interval, note
\* the start time and invoke the poll callback; get_config exits when the
\* file cannot be opened
BeginCycle ==
    /\ ppc = "load"
    /\ polls < MaxCycles
    /\ \/ \E raw \in RawIntervals :
            LET res == BaseConfig_interval(raw)
            IN  /\ config' = raw
                /\ IF res.raised
                   THEN /\ ppc' = "raised"
                        /\ UNCHANGED <<interval, clock, polls, watch>>
                   ELSE /\ ppc' = "polling"
                        /\ interval' = res.val
                        /\ clock' = 0
                        /\ polls' = polls + 1
                        /\ watch' = [watch EXCEPT
                                       !.short = IF polls = 0 THEN 0
                                                 ELSE Max(0, interval * TicksPerSecond - clock),
                                       !.after_sig = IF stop_signal THEN @ + 1 ELSE @]
       \/ /\ ppc' = "exited"
          /\ UNCHANGED <<config, interval, clock, polls, watch>>
    /\ UNCHANGED <<oneshot, stop_signal, left, nap>>

\* the poll callback returns after clock units; sleep_for is computed
EndPoll ==
    /\ ppc = "polling"
    /\ ppc' = "loop"
    /\ left' = SleepFor(interval, clock)
    /\ UNCHANGED <<oneshot, stop_signal, config, interval, clock, nap, polls,
                   watch>>

\* one iteration of the for loop: return, or time.sleep(1)
LoopCheck ==
    /\ ppc = "loop"
    /\ left > 0
    /\ IF ShouldReturn(stop_signal, oneshot)
       THEN ppc' = "returned" /\ nap' = nap
       ELSE ppc' = "sleeping" /\ nap' = 0
    /\ UNCHANGED <<oneshot, stop_signal, config, interval, clock, left, polls,
                   watch>>

\* time.sleep(1) is over
Wake ==
    /\ ppc = "sleeping"
    /\ nap = TicksPerSecond
    /\ ppc' = "loop"
    /\ left' = left - 1
    /\ watch' = [watch EXCEPT !.sleeps = @ + 1]
    /\ UNCHANGED <<oneshot, stop_signal, config, interval, clock, nap, polls>>

\* the check after the for loop: return, or the next cycle
FinalCheck ==
    /\ ppc = "loop"
    /\ left = 0
    /\ ppc' = IF ShouldReturn(stop_signal, oneshot) THEN "returned" ELSE "load"
    /\ UNCHANGED <<oneshot, stop_signal, config, interval, clock, left, nap,
                   polls, watch>>

\* one unit of time passes, in the poll callback or in time.sleep(1)
Tick ==
    /\ \/ ppc = "polling" /\ clock < MaxDur
       \/ ppc = "sleeping" /\ nap < TicksPerSecond
    /\ clock' = clock + 1
    /\ nap' = IF ppc = "sleeping" THEN nap + 1 ELSE nap
    /\ watch' = Passed(watch)
    /\ UNCHANGED <<ppc, oneshot, stop_signal, config, interval, left, polls>>

\* a handler that ended the callback instead of setting the flag
stop_aborting ==
    /\ ppc \in {"load", "polling", "loop", "sleeping"}
    /\ stop_signal' = TRUE
    /\ ppc' = IF ppc = "polling" THEN "returned" ELSE ppc
    /\ watch' = IF watch.since_sig < 0
                THEN [watch EXCEPT !.since_sig = 0, !.sig_at = ppc]
                ELSE watch
    /\ UNCHANGED <<oneshot, config, interval, clock, left, nap, polls>>

\* SIGTERM is delivered: stop() sets the flag; a sleep in progress goes on
stop ==
    /\ ppc \in {"load", "polling", "loop", "sleeping"}
    /\ stop_signal' = TRUE
    /\ watch' = IF watch.since_sig < 0
                THEN [watch EXCEPT !.since_sig = 0,
                                   !.sig_at = IF ppc = "loop" /\ left = 0
                                              THEN "final" ELSE ppc]
                ELSE watch
    /\ UNCHANGED <<ppc, oneshot, config, interval, clock, left, nap, polls>>

PollerOff ==
    /\ ppc = "off"
    /\ oneshot = FALSE
    /\ stop_signal = FALSE
    /\ config = RawAbsent
    /\ interval = 0
    /\ clock = 0
    /\ left = 0
    /\ nap = 0
    /\ polls = 0
    /\ watch = NoWatch
    /\ NoTx

(***************************************************************************)
(* Inputs of the callers and the initial store.                            *)
(***************************************************************************)
Bytes(val) == [kind |-> "bytes", val |-> val]

\* File objects: name and data (bytes)
Files == {[name |-> "a", data |-> Bytes(<<0>>)],
          [name |-> "a", data |-> Bytes(<<1>>)],
          [name |-> "b", data |-> Bytes(<<0>>)]}

SeqFile == [name |-> "a", data |-> Bytes(<<0>>)]

ConcFiles == {f \in Files : f.name = "a"}

FileLists == UNION {[1..n -> Files] : n \in 0..MaxFiles}

Args(asgn_id, author, files, timestamp, mode) ==
    [asgn_id |-> asgn_id, author |-> author, files |-> files,
     timestamp |-> timestamp, mode |-> mode]

\* timestamps of the concurrent callers: two zones, so that distinct local
\* datetimes denote the same instant
ConcTimestamps ==
    {[sec |-> 0, us |-> 0, off |-> 0], [sec |-> 1, us |-> 0, off |-> 1]}

\* concurrent callers: colliding and distinct keys without files, and
\* unstamped calls that store one file once or several times
ConcInputs ==
    {Args(1, who, <<>>, ts, "No") : who \in Persons, ts \in ConcTimestamps}
    \cup {Args(1, 1, fl, NoTimestamp, "No") :
            fl \in {l \in FileLists : Cardinality(Range(l)) <= 1
                                        /\ Range(l) \subseteq ConcFiles}}

\* the dispatching caller: every author and mode, with and without a
\* timestamp and a file
DispInputs ==
    {Args(1, who, fl, ts, m) :
        who \in Persons, fl \in {<<>>, <<SeqFile>>},
        ts \in {NoTimestamp, [sec |-> 0, us |-> 0, off |-> 0]}, m \in EvalReq}

\* the sequential caller repeats the timestamp of its first call; it passes
\* files until an association is stored and asks for an evaluation until a
\* request is stored
SeqTimestamps ==
    IF ncalls = 0
    THEN {NoTimestamp} \cup {[sec |-> 0, us |-> u, off |-> 0] : u \in 0..MaxMicro}
    ELSE {last.timestamp}

SeqInputs ==
    {Args(1, 1, fl, ts, m) :
        fl \in {l \in FileLists : l = <<>> \/
                    (submission_in = <<>> /\ Range(l) = {SeqFile})},
        ts \in SeqTimestamps,
        m \in {"No"} \cup (IF eval_req = <<>>
                            THEN {"Yes", "TeacherInactiveOnly"} ELSE {})}

\* current_suite has at most one row per assignment
SuiteStates ==
    {{}} \cup {{[id |-> 1, assignment_id |-> 1, active |-> act]} :
                  act \in BOOLEAN}

InitStore(suites) ==
    /\ submission = <<>>
    /\ next_id = 1
    /\ content = <<>>
    /\ submission_in = <<>>
    /\ eval_req = <<>>
    /\ notified = 0
    /\ teacher_list = {1}
    /\ current_suite \in suites
    /\ proc = [p \in Procs |-> Idle]
    /\ ncalls = 0
    /\ last = Summary(Idle)
    /\ PollerOff

Init == InitStore(SuiteStates)

\* the concurrent callers never ask for an evaluation: one suite state
ConcInit == InitStore({{[id |-> 1, assignment_id |-> 1, active |-> FALSE]}})

Step(p) ==
    \/ InsertStamped(p)
    \/ InsertDefault(p)
    \/ PutContent(p)
    \/ AssocFile(p)
    \/ Dispatch(p)
    \/ Return(p)

\* concurrent callers, each on its own connection
Next ==
    \E p \in Procs :
        \/ Call(p, ConcInputs, MaxCalls)
        \/ Step(p)

Spec == ConcInit /\ [][Next]_vars

\* one caller submitting the same timestamp again and again
SeqNext ==
    \E p \in SeqProcs :
        \/ Call(p, SeqInputs, MaxSeqCalls)
        \/ Step(p)

SeqSpec == Init /\ [][SeqNext]_vars

\* one caller submitting under every mode
DispNext ==
    \E p \in SeqProcs :
        \/ Call(p, DispInputs, MaxCalls)
        \/ Step(p)

DispSpec == Init /\ [][DispNext]_vars

\* one caller submitting every list of files, with names and contents that
\* repeat, until an association is stored
FileInputs ==
    {Args(1, 1, fl, ts, "Yes") :
        fl \in {l \in FileLists : l = <<>> \/ submission_in = <<>>},
        ts \in {NoTimestamp, [sec |-> 0, us |-> 0, off |-> 0]}}

FileNext ==
    \E p \in SeqProcs :
        \/ Call(p, FileInputs, MaxCalls)
        \/ Step(p)

FileSpec == Init /\ [][FileNext]_vars

\* poller after signal.signal(SIGTERM, stop), with the store left alone
PollerInit ==
    /\ submission = <<>>
    /\ next_id = 1
    /\ content = <<>>
    /\ submission_in = <<>>
    /\ eval_req = <<>>
    /\ notified = 0
    /\ teacher_list = {1}
    /\ current_suite = {}
    /\ proc = [p \in Procs |-> Idle]
    /\ ncalls = 0
    /\ last = Summary(Idle)
    /\ ppc = "load"
    /\ oneshot \in BOOLEAN
    /\ stop_signal = FALSE
    /\ config = RawAbsent
    /\ interval = 0
    /\ clock = 0
    /\ left = 0
    /\ nap = 0
    /\ polls = 0
    /\ watch = NoWatch
    /\ NoTx

svars == <<submission, next_id, content, submission_in, eval_req, notified,
           teacher_list, current_suite, proc, ncalls, last,
           dry_run, db, durable, want>>

PollerNext ==
    \/ BeginCycle /\ UNCHANGED svars
    \/ EndPoll /\ UNCHANGED svars
    \/ LoopCheck /\ UNCHANGED svars
    \/ Wake /\ UNCHANGED svars
    \/ FinalCheck /\ UNCHANGED svars
    \/ Tick /\ UNCHANGED svars
    \/ stop /\ UNCHANGED svars

PollerSpec == PollerInit /\ [][PollerNext]_vars

\* poller keeps running: the process is scheduled, time passes, and every
\* invocation of the poll callback returns
PollerFairSpec ==
    /\ PollerInit
    /\ [][PollerNext]_vars
    /\ WF_vars(BeginCycle /\ UNCHANGED svars)
    /\ WF_vars(EndPoll /\ UNCHANGED svars)
    /\ WF_vars(LoopCheck /\ UNCHANGED svars)
    /\ WF_vars(Wake /\ UNCHANGED svars)
    /\ WF_vars(FinalCheck /\ UNCHANGED svars)
    /\ WF_vars(Tick /\ UNCHANGED svars)

\* one connection: calls that may fail at every statement, commits between
\* the calls, a rollback after a call that raised
TxInputs ==
    {Args(1, 1, fl, ts, m) :
        fl \in {l \in FileLists : Range(l) \subseteq {SeqFile}},
        ts \in {NoTimestamp, [sec |-> 0, us |-> 0, off |-> 0]},
        m \in {"Yes", "No"}}

TxNext ==
    \E p \in SeqProcs :
        \/ Call(p, TxInputs, MaxCalls)
        \/ InsertStamped(p)
        \/ InsertDefault(p)
        \/ PutContent(p)
        \/ AssocFile(p)
        \/ Dispatch(p)
        \/ TxReturn(p)
        \/ Fail(p)
        \/ Abort(p)
        \/ Commit(p)

TxSpec == Init /\ [][TxNext]_vars

\* the program from main on: the poll callback submits and commits on the
\* connection main made
MainInputs == {Args(1, 1, <<SeqFile>>, NoTimestamp, "No")}

\* the intervals of the configurations that load
MainConfigs == {RawInt(0), RawInt(1)}

MainInit ==
    /\ submission = <<>>
    /\ next_id = 1
    /\ content = <<>>
    /\ submission_in = <<>>
    /\ eval_req = <<>>
    /\ notified = 0
    /\ teacher_list = {1}
    /\ current_suite = {}
    /\ proc = [p \in Procs |-> Idle]
    /\ ncalls = 0
    /\ last = Summary(Idle)
    /\ ppc = "main"
    /\ oneshot \in BOOLEAN
    /\ stop_signal = FALSE
    /\ config = RawAbsent
    /\ interval = 0
    /\ clock = 0
    /\ left = 0
    /\ nap = 0
    /\ polls = 0
    /\ watch = NoWatch
    /\ dry_run \in BOOLEAN
    /\ db = NewConnection
    /\ durable = NoneDurable
    /\ want = <<>>

Callback(p) ==
    \/ Call(p, MainInputs, MaxCalls)
    \/ InsertDefault(p)
    \/ PutContent(p)
    \/ AssocFile(p)
    \/ Dispatch(p)
    \/ TxReturn(p)
    \/ Commit(p)

MainNext ==
    \/ main /\ UNCHANGED <<dbvars, proc, ncalls, last>>
    \/ BeginCycle /\ (ppc' = "polling" => config' \in MainConfigs)
                  /\ UNCHANGED svars
    \/ ppc = "polling" /\ (\E p \in SeqProcs : Callback(p))
    \/ EndPoll /\ (\A p \in Procs : proc[p].pc = "idle") /\ UNCHANGED svars
    \/ LoopCheck /\ UNCHANGED svars
    \/ Wake /\ UNCHANGED svars
    \/ FinalCheck /\ UNCHANGED svars
    \/ Tick /\ UNCHANGED svars
    \/ stop /\ UNCHANGED svars

MainSpec == MainInit /\ [][MainNext]_vars

(***************************************************************************)
(* Properties of submit_assignment.                                        *)
(***************************************************************************)
\* the row of submission a call owns
RowsOf(sid) == {i \in DOMAIN submission : submission[i].id = sid}

StampOf(sid) == submission[CHOOSE i \in RowsOf(sid) : TRUE].stamp

\* the callers currently holding an id, and the call that finished last
Holders == {p \in Procs : proc[p].sid # 0}

\* C1: under every interleaving of the callers no two rows of submission
\* share (author, assignment_id, stamp) when a stamp was supplied, ids are
\* never shared between rows, and every call that got an id owns a row of
\* its own: the id is that of exactly one row, carrying the call's author
\* and assignment, and no other call (running or finished last) holds it
C1_UniqueSubmissions ==
    /\ \A i, j \in DOMAIN submission :
          i # j =>
            /\ submission[i].id # submission[j].id
            /\ submission[i].stamp # NullStamp =>
                  <<submission[i].author, submission[i].assignment_id,
                    submission[i].stamp>> #
                  <<submission[j].author, submission[j].assignment_id,
                    submission[j].stamp>>
    /\ \A p \in Holders :
          /\ Cardinality(RowsOf(proc[p].sid)) = 1
          /\ \A i \in RowsOf(proc[p].sid) :
                /\ submission[i].author = proc[p].author
                /\ submission[i].assignment_id = proc[p].asgn_id
          /\ \A q \in Holders \ {p} : proc[q].sid # proc[p].sid
          /\ last.sid # proc[p].sid

\* two callers raced on one key (the same instant written in two zones);
\* both own a row and one of them had to retry
C1_Witness ==
    \E p, q \in Holders :
        /\ p # q
        /\ proc[p].author = proc[q].author
        /\ proc[p].timestamp # NoTimestamp
        /\ proc[q].timestamp # NoTimestamp
        /\ proc[p].timestamp # proc[q].timestamp
        /\ to_utc_strip(proc[p].timestamp) = to_utc_strip(proc[q].timestamp)
        /\ proc[p].warned = 0
        /\ proc[q].warned = 1

\* the second of the first two calls of the sequential caller has returned,
\* both with the same (author, assignment, timestamp)
SecondOfTwo(r) ==
    /\ r.pc = "done"
    /\ ncalls = 2
    /\ last.pc = "done"
    /\ r.timestamp # NoTimestamp
    /\ last.timestamp = r.timestamp
    /\ last.author = r.author
    /\ last.asgn_id = r.asgn_id

\* C2: for every timestamp, the second of two calls with identical (author,
\* assignment, timestamp) stores a stamp exactly one microsecond later than
\* the stamp the first call stored
C2_SecondStampOneLater ==
    \A p \in Procs :
        SecondOfTwo(proc[p]) =>
            Micros(StampOf(proc[p].sid)) = Micros(StampOf(last.sid)) + 1

\* C3: for every timestamp, of two calls with identical (author, assignment,
\* timestamp) on an otherwise empty key the first emits no collision warning
\* and the second exactly one
C3_ExactlyOneWarning ==
    \A p \in Procs :
        SecondOfTwo(proc[p]) => last.warned = 0 /\ proc[p].warned = 1

\* C4: a call with a timestamp raises only after the normalised timestamp
\* perturbed by each of the counters 1..10 has been tried and has collided
C4_FailsOnlyAfterTenPerturbations ==
    \A p \in Procs :
        proc[p].pc = "raised" =>
            \A k \in 1..Retries :
                LET s == replace_microsecond(to_utc_strip(proc[p].timestamp), k)
                IN  /\ s \in Range(proc[p].tried)
                    /\ Conflicts(submission, proc[p].author, proc[p].asgn_id, s)

\* C5: a call that returns has inserted exactly one row of submission, which
\* is in the table; nothing is written for a call without such a row; and a
\* call raises only with every attempt collided and then has written no
\* content, no file association, no evaluation request and no notification
C5_NeverSilentlyDropped ==
    \A p \in Procs :
        LET r == proc[p]
        IN  /\ r.pc \in {"content", "assoc", "dispatch", "done"} =>
                  /\ r.wrote.submission = 1
                  /\ Cardinality(RowsOf(r.sid)) = 1
            /\ r.pc = "raised" =>
                  /\ r.wrote = NoWrites
                  /\ Len(r.tried) = Retries
                  /\ \A i \in DOMAIN r.tried :
                        Conflicts(submission, r.author, r.asgn_id, r.tried[i])
                  /\ \A i \in DOMAIN submission_in :
                        submission_in[i].submission_id # r.sid
                  /\ \A i \in DOMAIN eval_req :
                        eval_req[i].submission_id # r.sid

\* a call with files and a dispatching mode, against a pending suite, raised
C5_Witness ==
    \E p \in Procs :
        /\ proc[p].pc = "raised"
        /\ proc[p].files # <<>>
        /\ proc[p].mode = "Yes"
        /\ \E s \in current_suite : ~s.active

\* the suites of an assignment that are current and not active
Pending(asgn_id) ==
    {s \in current_suite : s.assignment_id = asgn_id /\ ~s.active}

RequestsOf(sid) == {i \in DOMAIN eval_req : eval_req[i].submission_id = sid}

\* C6: a returned call has created a request iff its mode is Yes, or
\* TeacherInactiveOnly with a teacher as author, and the assignment has a
\* current suite that is not active; a created request names the call's
\* submission and such a suite
C6_RequestIffEffectiveYesAndPending ==
    \A p \in Procs :
        LET r == proc[p]
            effective == \/ r.mode = "Yes"
                         \/ r.mode = "TeacherInactiveOnly"
                            /\ r.author \in teacher_list
        IN  r.pc = "done" =>
              /\ RequestsOf(r.sid) # {} <=>
                    (effective /\ Pending(r.asgn_id) # {})
              /\ \A i \in RequestsOf(r.sid) :
                    \E s \in Pending(r.asgn_id) : eval_req[i].suite_id = s.id

\* a teacher under TeacherInactiveOnly got a request, with a timestamp given
C6_Witness ==
    \E p \in Procs :
        /\ proc[p].pc = "done"
        /\ proc[p].mode = "TeacherInactiveOnly"
        /\ proc[p].author \in teacher_list
        /\ proc[p].timestamp # NoTimestamp
        /\ RequestsOf(proc[p].sid) # {}

\* C7: a call creates at most one request and issues one notification per
\* request it creates; as many notifications have been issued on eval_req as
\* rows were inserted into it
C7_OneRequestOneNotification ==
    /\ notified = Len(eval_req)
    /\ \A p \in Procs :
          /\ proc[p].wrote.eval_req <= 1
          /\ proc[p].wrote.notify = proc[p].wrote.eval_req
          /\ proc[p].sid # 0 =>
                Cardinality(RequestsOf(proc[p].sid)) = proc[p].wrote.eval_req

\* a second dispatching call returned: two requests, two notifications
C7_Witness ==
    /\ Len(eval_req) = 2
    /\ \E p \in Procs : proc[p].pc = "done" /\ proc[p].wrote.eval_req = 1

\* the files of a call whose content has been put
PutSoFar(r) ==
    {r.files[i].data : i \in {j \in DOMAIN r.files :
                                \/ j < r.f
                                \/ j = r.f /\ r.pc = "assoc"}}

ContentOnce ==
    /\ \A i, j \in DOMAIN content : i # j => content[i].sha # content[j].sha
    /\ \A i \in DOMAIN content : content[i].sha = sha256(content[i].data)
    /\ \A p \in Procs : \A d \in PutSoFar(proc[p]) :
          Cardinality({i \in DOMAIN content : content[i].data = d}) = 1
    /\ \A i \in DOMAIN submission_in :
          \E k \in DOMAIN content :
              content[k].sha = submission_in[i].content_sha

ContentKept ==
    \A i \in DOMAIN content : i \in DOMAIN content' /\ content'[i] = content[i]

\* C8: content put twice, by one call or by several (concurrent ones too),
\* is stored in exactly one row, under the digest of its data, which every
\* association of it names; a stored row is never changed or removed
C8_ContentStoredOnce == [](ContentOnce) /\ [][ContentKept]_vars

\* two callers are both past the put of the same data, one row is stored
C8_Witness ==
    \E p, q \in Procs :
        /\ p # q
        /\ proc[p].pc = "assoc"
        /\ proc[q].pc = "assoc"
        /\ proc[p].files[proc[p].f].data = proc[q].files[proc[q].f].data
        /\ proc[p].wrote.content = 1
        /\ proc[q].wrote.content = 0
        /\ Len(content) = 1

(***************************************************************************)
(* Properties of poller.                                                   *)
(***************************************************************************)
\* C9: with oneshot set the poll callback is invoked once and poller then
\* returns, whatever the interval and however long the callback took: it
\* never sleeps (no time.sleep(1) is begun or completed) and never comes back
\* to the top of the loop after the callback
C9_OneshotPollsOnce ==
    oneshot =>
        /\ polls <= 1
        /\ ppc # "sleeping"
        /\ watch.sleeps = 0
        /\ ppc = "load" => polls = 0
        /\ ppc = "returned" => polls = 1

\* oneshot returned out of the for loop: the callback was a second or more
\* shorter than the interval
C9_Witness ==
    /\ oneshot
    /\ ppc = "returned"
    /\ clock > 0
    /\ left >= 1

\* C10: when SIGTERM arrives in the sleep phase (in time.sleep(1) or at the
\* check before it), poller has returned before more than one second has
\* passed since the signal, without beginning another sleep and without
\* invoking the poll callback again
C10_StopDuringSleep ==
    watch.sig_at \in {"sleeping", "loop"} =>
        /\ watch.after_sig = 0
        /\ watch.since_sig <= TicksPerSecond
        /\ ppc \in {"sleeping", "loop", "returned"}
        /\ ppc = "sleeping" => nap >= watch.since_sig

\* the signal came as a sleep began, with more sleeps to go; poller returned
\* a full second later
C10_Witness ==
    /\ watch.sig_at = "sleeping"
    /\ ppc = "returned"
    /\ watch.since_sig = TicksPerSecond
    /\ left >= 2
    /\ polls = 1

\* what holds once SIGTERM has arrived while the poll callback was running
SignalledInPoll ==
    watch.sig_at = "polling" =>
        /\ stop_signal
        /\ watch.after_sig = 0
        /\ ppc \in {"polling", "loop", "returned"}

\* the callback is left only by its own return, and the delivery of the
\* signal changes neither the position of poller nor the time
PollRunsOn ==
    /\ ppc = "polling" => ppc' \in {"polling", "loop"}
    /\ stop_signal' # stop_signal =>
            ppc' = ppc /\ clock' = clock /\ polls' = polls

\* C11: when SIGTERM arrives while the poll callback is executing, the
\* callback is not aborted: it goes on and is left only by its own return;
\* poller then returns at the first check after it, without sleeping and
\* without invoking the callback again
C11_StopDuringPoll == [](SignalledInPoll) /\ [][PollRunsOn]_vars

\* the callback ran for two more units after the signal, then poller
\* returned although a sleep was due and oneshot was not set
C11_Witness ==
    /\ watch.sig_at = "polling"
    /\ ppc = "returned"
    /\ watch.since_sig >= 2
    /\ ~oneshot
    /\ left >= 1
    /\ polls = 1

\* C12: a cycle that is neither cancelled nor oneshot sleeps out the rest of
\* the interval, so that no poll callback starts sooner than the configured
\* interval after the start of the callback before it (watch.short is the
\* time by which the latest start came too soon)
C12_FullIntervalBetweenStarts ==
    ppc \in {"polling", "loop", "sleeping", "returned"} => watch.short = 0

\* rows of submission that got the column default for stamp
UnstampedRows == {i \in DOMAIN submission : submission[i].stamp = NullStamp}

\* C15: a call without a timestamp inserts unconditionally: it never takes
\* the retry path (no attempt recorded, no warning), never raises, and gets a
\* row of its own at its first and only insert; when every call so far was
\* made without a timestamp for one author and assignment, there are as many
\* rows as calls that have passed their insert
C15_UnstampedAlwaysInserts ==
    /\ \A p \in Procs :
          LET r == proc[p]
          IN  (r.pc # "idle" /\ r.timestamp = NoTimestamp) =>
                /\ r.warned = 0
                /\ r.tried = <<>>
                /\ r.retry = 0
                /\ r.pc # "raised"
                /\ r.pc # "insert_default" =>
                      /\ r.sid # 0
                      /\ r.wrote.submission = 1
                      /\ Cardinality(RowsOf(r.sid)) = 1
                      /\ StampOf(r.sid) = NullStamp
                /\ Cardinality(UnstampedRows) =
                      ncalls - (IF r.pc = "insert_default" THEN 1 ELSE 0)
    /\ (last.pc # "idle" /\ last.timestamp = NoTimestamp) =>
          /\ last.pc = "done"
          /\ last.warned = 0
          /\ last.sid # 0
          /\ (\A p \in Procs : proc[p].pc = "idle") =>
                Cardinality(UnstampedRows) = ncalls

\* the fourth unstamped call of one author for one assignment has its row
C15_Witness ==
    /\ proc[1].pc = "done"
    /\ proc[1].timestamp = NoTimestamp
    /\ ncalls = 4
    /\ Cardinality({i \in UnstampedRows :
                       /\ submission[i].author = proc[1].author
                       /\ submission[i].assignment_id = proc[1].asgn_id}) = 4

\* config is what the reload at the top of the current cycle found
IntervalOfThisCycle ==
    ppc \in {"polling", "loop", "sleeping"} =>
        /\ ~BaseConfig_interval(config).raised
        /\ interval = BaseConfig_interval(config).val

\* the reload happens on the step from the loop top into the callback, and
\* the sleep is computed from the interval found by it
SleepOfThisCycle ==
    /\ (ppc = "load" /\ ppc' = "polling") =>
            config' \in RawIntervals /\ polls' = polls + 1
    /\ (ppc = "polling" /\ ppc' = "loop") =>
            left' = SleepFor(BaseConfig_interval(config).val, clock)
    /\ ppc' # "load" /\ ppc # "load" => config' = config

\* C16: the configuration is reloaded at the top of every cycle, and the
\* interval that determines the sleep of a cycle is the one of the
\* configuration read at the start of that same cycle, whatever the
\* interval of the cycle before was
C16_IntervalReloadedEachCycle ==
    [](IntervalOfThisCycle) /\ [][SleepOfThisCycle]_vars

\* the second cycle is about to sleep under an interval so long that the
\* first cycle, which did not sleep, cannot have had it
C16_Witness ==
    /\ polls = 2
    /\ ppc = "loop"
    /\ watch.sleeps = 0
    /\ interval * TicksPerSecond >= MaxDur + TicksPerSecond
    /\ left = SleepFor(interval, clock)
    /\ left > 0

\* the rows of submission_in of one submission, in the order of insertion
AssocOf(sid) == SelectSeq(submission_in, LAMBDA row : row.submission_id = sid)

\* the files of a call whose association has been sent
Recorded(r) == IF r.pc \in {"content", "assoc"} THEN r.f - 1 ELSE Len(r.files)

AssocRow(r, i) == [submission_id |-> r.sid, assignment_id |-> r.asgn_id,
                   name |-> r.files[i].name,
                   content_sha |-> sha256(r.files[i].data)]

\* C17: within one call the submission row comes first; then, file by file
\* in the order of the list (also when names or contents repeat), the
\* content is put and after it exactly one association row is inserted;
\* the evaluation request is decided only when all the files have their
\* association
C17_StepsInOrder ==
    \A p \in Procs :
        LET r == proc[p]
        IN  /\ r.pc \in {"insert", "insert_default", "raised"} =>
                  /\ r.wrote.content = 0
                  /\ r.wrote.submission_in = 0
                  /\ r.wrote.eval_req = 0
            /\ r.pc \in {"content", "assoc", "dispatch", "done"} =>
                  /\ Cardinality(RowsOf(r.sid)) = 1
                  /\ r.wrote.submission = 1
                  /\ AssocOf(r.sid) = [i \in 1..Recorded(r) |-> AssocRow(r, i)]
                  /\ r.wrote.submission_in = Recorded(r)
                  /\ r.wrote.content <= Recorded(r) + (IF r.pc = "assoc" THEN 1 ELSE 0)
                  /\ r.pc = "assoc" =>
                        \E row \in Range(content) :
                            row.sha = sha256(r.files[r.f].data)
                  /\ r.pc # "done" =>
                        RequestsOf(r.sid) = {} /\ r.wrote.eval_req = 0
                  /\ RequestsOf(r.sid) # {} =>
                        Len(AssocOf(r.sid)) = Len(r.files)

\* two files of one name and different contents were associated in the
\* order given, and the evaluation was requested after them
C17_Witness ==
    \E p \in Procs :
        LET r == proc[p]
        IN  /\ r.pc = "done"
            /\ Len(r.files) = 2
            /\ r.files[1].name = r.files[2].name
            /\ r.files[1].data # r.files[2].data
            /\ Len(AssocOf(r.sid)) = 2
            /\ AssocOf(r.sid)[1].content_sha = sha256(r.files[1].data)
            /\ RequestsOf(r.sid) # {}
            /\ Len(submission) = 2

\* C19: within one call with a timestamp no stamp is attempted twice:
\* every insertion attempt carries a stamp different from all the stamps
\* the call attempted before (tried lists them in order)
C19_AttemptsDistinct ==
    \A p \in Procs :
        \A i, j \in DOMAIN proc[p].tried :
            i < j => proc[p].tried[i] # proc[p].tried[j]

\* a str that is digits, then spaces if any, then one of s, m, h
DigitsThenUnit(text) ==
    /\ Len(text) >= 2
    /\ IsDigit(text[1])
    /\ text[Len(text)] \in {"s", "m", "h"}
    /\ \A i \in 1..(Len(text) - 1) : IsDigit(text[i]) \/ text[i] = " "
    /\ \A i, j \in 1..(Len(text) - 1) :
          (i < j /\ text[i] = " ") => text[j] = " "

\* a configured interval that is neither an integer nor such a str (a
\* configuration without the key has the default and is not malformed)
Malformed(raw) ==
    /\ raw.type # "int"
    /\ raw.type # "absent"
    /\ ~(raw.type = "str" /\ DigitsThenUnit(raw.text))

\* the callback runs, and poller sleeps, under well-formed intervals only;
\* the error ends poller with the malformed configuration just loaded
NoPollUnderMalformed ==
    /\ ppc \in {"polling", "loop", "sleeping"} => ~Malformed(config)
    /\ ppc = "raised" => Malformed(config)

\* the error is raised on the step that reloads, in place of the callback
RaisedAtReload ==
    /\ (ppc = "load" /\ ppc' \notin {"load", "exited"}) =>
          IF Malformed(config')
          THEN ppc' = "raised" /\ polls' = polls /\ clock' = clock
          ELSE ppc' = "polling" /\ polls' = polls + 1
    /\ ppc' = "raised" => ppc \in {"load", "raised"}

\* C18: in every cycle whose reloaded configuration has a malformed
\* interval, the error is raised at the top of the cycle, before the poll
\* callback of that cycle is invoked: the callback never runs under a
\* malformed interval and the error never comes in the middle of a cycle
C18_MalformedRaisedBeforePoll ==
    [](NoPollUnderMalformed) /\ [][RaisedAtReload]_vars

\* the reload of the second cycle found a malformed str: the error came
\* after one callback, before the second
C18_Witness ==
    /\ ppc = "raised"
    /\ polls = 1
    /\ config.type = "str"
    /\ watch.sleeps >= 1

\* poller is over: it returned, or the reload ended it
Ended == ppc \in {"returned", "raised", "exited"}

\* the model stops at the top of the loop once MaxCycles cycles are through
Exhausted == ppc = "load" /\ polls >= MaxCycles

\* C20 as stated: after SIGTERM poller ends by returning; here as the final
\* result that, once the signal was delivered, poller has not ended with the
\* error of a reload
C20_ReturnsAfterSignal ==
    stop_signal => ppc \notin {"raised", "exited"}

\* after the signal at most one callback begins, and one begins only when
\* the signal came at the top of the loop
AtMostOnePollAfterSignal ==
    /\ watch.after_sig <= 1
    /\ (stop_signal /\ watch.sig_at # "load") => watch.after_sig = 0
    /\ (stop_signal /\ ppc \in {"raised", "exited"}) =>
          watch.sig_at = "load" /\ watch.after_sig = 0

\* C20, amended: wherever SIGTERM is delivered after the handler is
\* registered (before the first cycle, during the callback, during the
\* sleep, between the final check and the next callback), and given that
\* every callback returns, poller eventually ends: it returns, or the
\* reload at the top of the one cycle that may still begin fails with a
\* configuration error; at most one callback begins after the signal
C20_EndsAfterSignal ==
    /\ (stop_signal /\ ~Exhausted) ~> Ended
    /\ [](AtMostOnePollAfterSignal)
    /\ [][stop_signal => stop_signal']_vars

\* the signal came between the final check of the first cycle and the
\* second callback: that callback ran, and poller returned after it
C20_Witness ==
    /\ watch.sig_at = "load"
    /\ ppc = "returned"
    /\ polls = 2
    /\ watch.after_sig = 1
    /\ ~oneshot

(***************************************************************************)
(* Properties of the connection.                                           *)
(***************************************************************************)
\* under --dry-run poller is oneshot: at most one callback, exactly one when
\* poller returns, no sleep, never back at the top of the loop
DryRunOneCycle ==
    (dry_run /\ ppc # "main") =>
        /\ oneshot
        /\ db.dry_run
        /\ polls <= 1
        /\ ppc # "sleeping"
        /\ watch.sleeps = 0
        /\ ppc = "load" => polls = 0
        /\ ppc = "returned" => polls = 1

\* a connection with the flag has passed no commit on and nothing written
\* through it is durable; a connection without it has skipped none
NothingCommitted ==
    /\ db.dry_run => db.commits = 0 /\ durable = NoneDurable
    /\ ~db.dry_run => db.skipped = 0
    /\ ppc # "main" => db.dry_run = dry_run

\* every commit() is skipped with the flag and passed on without it, and
\* one passed on makes all rows written so far durable
CommitSkippedOrForwarded ==
    (db'.commits + db'.skipped # db.commits + db.skipped) =>
        IF db.dry_run
        THEN db'.skipped = db.skipped + 1 /\ db'.commits = db.commits
                /\ durable' = durable
        ELSE db'.commits = db.commits + 1 /\ db'.skipped = db.skipped
                /\ durable' = Lens

\* C13: under --dry-run the program runs one poll cycle (dry-run forces
\* oneshot) and commits nothing: every commit() on the connection is
\* skipped while dry_run is set, so no row becomes durable; with dry_run
\* unset every commit() is passed on to the database
C13_DryRunCommitsNothing ==
    /\ [](DryRunOneCycle /\ NothingCommitted)
    /\ [][CommitSkippedOrForwarded]_vars

\* a dry run returned after its one callback, which wrote a submission with
\* its file and called commit() twice: nothing is durable
C13_Witness ==
    /\ dry_run
    /\ ppc = "returned"
    /\ polls = 1
    /\ db.skipped = 2
    /\ Len(submission) >= 1
    /\ Len(submission_in) >= 1
    /\ durable = NoneDurable

\* ids of the submission rows other processes see
VisibleIds == {submission[i].id : i \in 1..Visible.submission}

VisibleAssoc(sid) ==
    {i \in 1..Visible.submission_in : submission_in[i].submission_id = sid}

\* C14: what another process sees of the store is made of whole
\* submissions: a visible submission row has all the file associations of
\* its call (and their contents, and its evaluation request if one was
\* made), and every visible file association or evaluation request has its
\* submission row, whether the calls completed or failed at any statement
C14_AtomicSubmission ==
    /\ \A sid \in VisibleIds :
          /\ sid \in DOMAIN want
          /\ Cardinality(VisibleAssoc(sid)) = want[sid]
          /\ \A i \in DOMAIN submission_in :
                submission_in[i].submission_id = sid => i <= Visible.submission_in
          /\ RequestsOf(sid) \subseteq 1..Visible.eval_req
    /\ \A i \in 1..Visible.submission_in :
          /\ submission_in[i].submission_id \in VisibleIds
          /\ \E j \in 1..Visible.content :
                content[j].sha = submission_in[i].content_sha
    /\ \A i \in 1..Visible.eval_req :
          eval_req[i].submission_id \in VisibleIds
    /\ Visible.notified = Visible.eval_req

\* a submission with two files and an evaluation request is committed; the
\* next call, of two files too, failed after its first association and a
\* rollback has not yet taken its rows away
C14_Witness ==
    /\ durable.submission = 1
    /\ durable.submission_in = 2
    /\ durable.eval_req = 1
    /\ proc[1].pc = "raised"
    /\ Len(proc[1].files) = 2
    /\ Len(submission) = 2
    /\ Len(submission_in) = 3

====
